---- MODULE Spec2Model ----
(***************************************************************************)
(* Model of the Redis event-streams capability provider (src/src/lib.rs).  *)
(*                                                                         *)
(* State: the provider's client registry (clients), the contents of the    *)
(* Redis servers the registered clients point at (store), and a record of  *)
(* the most recent handle_call (last).  cfgLog and wlog are history        *)
(* variables: the configuration of the latest successful configure per     *)
(* module, and the WriteResponses handed out so far.                       *)
(*                                                                         *)
(* Calls made by several host threads at once are followed step by step:   *)
(* lock is the state of the RwLock around clients, thr the position of     *)
(* every thread inside its call.                                           *)
(***************************************************************************)
EXTENDS Integers, Sequences, FiniteSets, TLC

VARIABLES clients, store, last, cfgLog, wlog, lock, thr

vars == <<clients, store, last, cfgLog, wlog, lock, thr>>

-----------------------------------------------------------------------------
(* Bounds *)

\* largest number of entries held by all streams together
MaxEntries == 2

-----------------------------------------------------------------------------
(* Option, HashMap and byte-string helpers *)

None == <<>>
Some(x) == <<x>>
IsSome(o) == Len(o) = 1
Unwrap(o) == o[1]

EmptyMap == [k \in {} |-> ""]

\* std::collections::HashMap modelled as a set of key/value entries
HashMap_new == {}

HashMap_get(m, k) ==
  IF \E e \in m : e.key = k
    THEN Some((CHOOSE e \in m : e.key = k).value)
    ELSE None

\* insert, were it to keep the value a key already has
HashMap_insert_keep(m, k, v) ==
  IF \E e \in m : e.key = k THEN m ELSE m \cup {[key |-> k, value |-> v]}

HashMap_insert(m, k, v) ==
  {e \in m : e.key # k} \cup {[key |-> k, value |-> v]}

\* the strings that occur as field values, with their UTF-8 encodings
Utf8(s) ==
  CASE s = "ok" -> <<111, 107>>
    [] s = "nerf-herder" ->
         <<110, 101, 114, 102, 45, 104, 101, 114, 100, 101, 114>>
    [] OTHER -> <<63>>

Texts == {"ok", "nerf-herder"}

from_utf8(b) ==
  IF \E s \in Texts : Utf8(s) = b
    THEN Some(CHOOSE s \in Texts : Utf8(s) = b)
    ELSE None

-----------------------------------------------------------------------------
(* Inputs *)

CallerIds == {"system", "a1"}

OP_CONFIGURE == "Configure"
OP_WRITE_EVENT == "WriteEvent"
OP_QUERY_STREAM == "QueryStream"
OtherOps == {"Deliver"}

ENV_REDIS_URL == "URL"
DefaultUrl == "redis://0.0.0.0:6379/"
SecondUrl == "redis://10.0.0.2:6379/"
MalformedUrl == "not a url"

\* addresses Client::open accepts; each names one Redis server
ServerUrls == {DefaultUrl, SecondUrl}

ConfigValues ==
  { EmptyMap,
    [k \in {ENV_REDIS_URL} |-> SecondUrl],
    [k \in {ENV_REDIS_URL} |-> MalformedUrl] }

Configurations == [module : CallerIds, values : ConfigValues]

Streams == {"my-stream", "s2"}

EventValues ==
  { EmptyMap,
    [k \in {"scruffy-looking", "test"} |->
        IF k = "test" THEN "ok" ELSE "nerf-herder"] }

Events == [event_id : {""}, stream : Streams, values : EventValues]

IdString(id) == ToString(id.ms) \o "-" \o ToString(id.seq)

TimeString(t) == ToString(t)

\* the millisecond timestamps a query's range names
TimeStrings == {"1", "2"}

TimeRanges == [min_time : TimeStrings, max_time : TimeStrings]

Counts == {-1, 0, 1, 2}

Queries ==
  [stream_id : Streams,
   range : {None} \cup {Some(r) : r \in TimeRanges},
   count : Counts]

\* request and response payloads: the message type the bytes encode, or
\* bytes that decode as no message at all
Garbage == [type |-> "Garbage", body |-> <<>>]

bytes(type, msg) == [type |-> type, body |-> <<msg>>]

decode(type, msg) == IF msg.type = type THEN Some(msg.body[1]) ELSE None

-----------------------------------------------------------------------------
(* Results of a call *)

NoPayload == [type |-> "None", body |-> <<>>]
EmptyBytes == [type |-> "Empty", body |-> <<>>]
NoError == [kind |-> "None", msg |-> ""]

Ok(p) == [tag |-> "Ok", payload |-> p, err |-> NoError]
Err(kind, msg) ==
  [tag |-> "Err", payload |-> NoPayload, err |-> [kind |-> kind, msg |-> msg]]
Panic == [tag |-> "Panic", payload |-> NoPayload, err |-> NoError]

BadDispatch == Err("Message", "bad dispatch")
NoClientForActor ==
  Err("InvalidClientConfig",
      "No client for this actor. Did the host configure it?")
FailedToConnect == Err("Message", "Failed to connect to redis")
ConnectionRefused == Err("IoError", "connection refused")
CommandFailed == Err("ResponseError", "command failed")

\* what a handler hands back: its result, the registry and the servers after
\* it, the server it opened a connection to and the commands it sent there
Outcome(res, cl, st, conn, cmds) ==
  [result |-> res, clients |-> cl, store |-> st, conn |-> conn, cmds |-> cmds]

-----------------------------------------------------------------------------
(* The Redis server behind a connection: XADD with id "*", XRANGE *)

Last(s) == s[Len(s)]

Take(s, n) == IF n <= 0 THEN <<>> ELSE SubSeq(s, 1, IF n < Len(s) THEN n ELSE Len(s))

\* the id XADD assigns for "*" when the server's clock reads ms
AutoId(entries, ms) ==
  IF entries = <<>> \/ Last(entries).id.ms < ms
    THEN [ms |-> ms, seq |-> 0]
    ELSE [ms |-> Last(entries).id.ms, seq |-> Last(entries).id.seq + 1]

Data(s) == [tag |-> "Data", data |-> Utf8(s)]

\* clock: what each server's clock reads
xadd(st, conn, key, data, clock) ==
  LET id == AutoId(st[conn][key], clock[conn])
      entry == [id |-> id,
                fields |-> [i \in 1..Len(data) |->
                              [k |-> data[i][1], v |-> Data(data[i][2])]]]
  IN [reply |-> IdString(id),
      store |-> [st EXCEPT ![conn][key] = Append(@, entry)]]

ParseTime(s) == CHOOSE t \in 0..(MaxEntries + 2) : TimeString(t) = s

InRange(id, start, end) ==
  /\ start = "-" \/ (start # "+" /\ ParseTime(start) <= id.ms)
  /\ end = "+" \/ (end # "-" /\ id.ms <= ParseTime(end))

xrange(st, conn, key, start, end) ==
  LET Hit(e) == InRange(e.id, start, end)
  IN SelectSeq(st[conn][key], Hit)

xrange_count(st, conn, key, start, end, count) ==
  Take(xrange(st, conn, key, start, end), count)

XADD(key, data) ==
  [name |-> "XADD", key |-> key, id |-> "*", start |-> "", end |-> "",
   count |-> None, data |-> data]

XRANGE(key, start, end, count) ==
  [name |-> "XRANGE", key |-> key, id |-> "", start |-> start, end |-> end,
   count |-> count, data |-> <<>>]

-----------------------------------------------------------------------------
(* The provider *)

Client_open(url) == IF url \in ServerUrls THEN Some([url |-> url]) ELSE None

\* initialize_client, were it to read the key without regard to case
initialize_client_nocase(config) ==
  LET redis_url == IF ENV_REDIS_URL \in DOMAIN config.values
                     THEN config.values[ENV_REDIS_URL]
                     ELSE IF "url" \in DOMAIN config.values
                       THEN config.values["url"]
                       ELSE DefaultUrl
  IN Client_open(redis_url)

initialize_client(config) ==
  LET redis_url == IF ENV_REDIS_URL \in DOMAIN config.values
                     THEN config.values[ENV_REDIS_URL]
                     ELSE DefaultUrl
  IN Client_open(redis_url)

\* configure, were a failed open to discard the module's handle
configure_drop_on_failure(cl, st, msg) ==
  LET config == decode("CapabilityConfiguration", msg)
      c == initialize_client(Unwrap(config))
  IN IF ~IsSome(config) THEN Outcome(Panic, cl, st, None, <<>>)
     ELSE IF ~IsSome(c)
       THEN Outcome(FailedToConnect,
                    {e \in cl : e.key # Unwrap(config).module}, st, None, <<>>)
     ELSE Outcome(Ok(EmptyBytes),
                  HashMap_insert(cl, Unwrap(config).module, Unwrap(c)),
                  st, None, <<>>)

\* configure, were it to store the handle under the id of its caller
configure_under_system(cl, st, msg) ==
  LET config == decode("CapabilityConfiguration", msg)
      c == initialize_client(Unwrap(config))
  IN IF ~IsSome(config) THEN Outcome(Panic, cl, st, None, <<>>)
     ELSE IF ~IsSome(c) THEN Outcome(FailedToConnect, cl, st, None, <<>>)
     ELSE Outcome(Ok(EmptyBytes),
                  HashMap_insert(cl, "system", Unwrap(c)), st, None, <<>>)

\* config.into() has no error path: bytes that are no CapabilityConfiguration
\* end the call in the conversion, as decode(msg).unwrap() does in handle_call
configure(cl, st, msg) ==
  LET config == decode("CapabilityConfiguration", msg)
      c == initialize_client(Unwrap(config))
  IN IF ~IsSome(config) THEN Outcome(Panic, cl, st, None, <<>>)
     ELSE IF ~IsSome(c) THEN Outcome(FailedToConnect, cl, st, None, <<>>)
     ELSE Outcome(Ok(EmptyBytes),
                  HashMap_insert(cl, Unwrap(config).module, Unwrap(c)),
                  st, None, <<>>)

\* fault: what goes wrong between the provider and the server in this call
Faults == {"none", "connect", "command"}

\* actor_con, were a missing client to fall back to the default server
actor_con_default(cl, actor, fault) ==
  LET client == HashMap_get(cl, actor)
  IN IF fault = "connect"
       THEN [ok |-> FALSE, conn |-> None, err |-> ConnectionRefused]
       ELSE [ok |-> TRUE,
             conn |-> Some(IF IsSome(client) THEN Unwrap(client).url
                           ELSE DefaultUrl),
             err |-> Ok(NoPayload)]

actor_con(cl, actor, fault) ==
  LET client == HashMap_get(cl, actor)
  IN IF IsSome(client)
       THEN IF fault = "connect"
              THEN [ok |-> FALSE, conn |-> None, err |-> ConnectionRefused]
              ELSE [ok |-> TRUE, conn |-> Some(Unwrap(client).url),
                    err |-> Ok(NoPayload)]
       ELSE [ok |-> FALSE, conn |-> None, err |-> NoClientForActor]

\* the orders in which a HashMap with these keys can be iterated
Orders(keys) ==
  {o \in [1..Cardinality(keys) -> keys] :
     \A i, j \in DOMAIN o : o[i] = o[j] => i = j}

\* map_to_tuples, were it to lose the last pair
map_to_tuples_drop(map, order) ==
  [i \in 1..(Len(order) - 1) |-> <<order[i], map[order[i]]>>]

map_to_tuples(map, order) ==
  [i \in 1..Len(order) |-> <<order[i], map[order[i]]>>]

\* write_event, were it to append to another stream than the event's
write_event_other_stream(cl, st, actor, event, order, fault, ms) ==
  LET data == map_to_tuples(event.values, order)
      con == actor_con(cl, actor, fault)
      key == CHOOSE s \in Streams : s # event.stream
      cmd == XADD(key, data)
      res == xadd(st, Unwrap(con.conn), key, data, ms)
  IN IF ~con.ok THEN Outcome(con.err, cl, st, None, <<>>)
     ELSE IF fault = "command" \/ data = <<>>
       THEN Outcome(CommandFailed, cl, st, con.conn, <<cmd>>)
     ELSE Outcome(Ok(bytes("WriteResponse", [event_id |-> res.reply])),
                  cl, res.store, con.conn, <<cmd>>)

\* write_event, were the entry appended although the reply is an error
write_event_lost_reply(cl, st, actor, event, order, fault, ms) ==
  LET data == map_to_tuples(event.values, order)
      con == actor_con(cl, actor, fault)
      cmd == XADD(event.stream, data)
      res == xadd(st, Unwrap(con.conn), event.stream, data, ms)
  IN IF ~con.ok THEN Outcome(con.err, cl, st, None, <<>>)
     ELSE IF data = <<>>
       THEN Outcome(CommandFailed, cl, st, con.conn, <<cmd>>)
     ELSE IF fault = "command"
       THEN Outcome(CommandFailed, cl, res.store, con.conn, <<cmd>>)
     ELSE Outcome(Ok(bytes("WriteResponse", [event_id |-> res.reply])),
                  cl, res.store, con.conn, <<cmd>>)

\* write_event, were it to send the append again after a failed one
write_event_retry(cl, st, actor, event, order, fault, ms) ==
  LET data == map_to_tuples(event.values, order)
      con == actor_con(cl, actor, fault)
      cmd == XADD(event.stream, data)
      res == xadd(st, Unwrap(con.conn), event.stream, data, ms)
  IN IF ~con.ok THEN Outcome(con.err, cl, st, None, <<>>)
     ELSE IF data = <<>>
       THEN Outcome(CommandFailed, cl, st, con.conn, <<cmd>>)
     ELSE IF fault = "command"
       THEN Outcome(Ok(bytes("WriteResponse", [event_id |-> res.reply])),
                    cl, res.store, con.conn, <<cmd, cmd>>)
     ELSE Outcome(Ok(bytes("WriteResponse", [event_id |-> res.reply])),
                  cl, res.store, con.conn, <<cmd>>)

write_event(cl, st, actor, event, order, fault, ms) ==
  LET data == map_to_tuples(event.values, order)
      con == actor_con(cl, actor, fault)
      cmd == XADD(event.stream, data)
      res == xadd(st, Unwrap(con.conn), event.stream, data, ms)
  IN IF ~con.ok THEN Outcome(con.err, cl, st, None, <<>>)
     ELSE IF fault = "command" \/ data = <<>>
       THEN Outcome(CommandFailed, cl, st, con.conn, <<cmd>>)
     ELSE Outcome(Ok(bytes("WriteResponse", [event_id |-> res.reply])),
                  cl, res.store, con.conn, <<cmd>>)

val_to_string(val) ==
  IF val.tag = "Data"
    THEN from_utf8(val.data)
    ELSE Some("??")

\* the field/value map the client library builds from an entry's reply
EntryMap(fields) ==
  [k \in {fields[i].k : i \in DOMAIN fields} |->
     fields[CHOOSE i \in DOMAIN fields :
              /\ fields[i].k = k
              /\ \A j \in DOMAIN fields : fields[j].k = k => j <= i].v]

\* the loop, were it to unwrap a first entry that an empty reply lacks
ToEvents_first(items, sid) ==
  IF items = <<>> \/ \E i \in DOMAIN items : \E j \in DOMAIN items[i].fields :
        ~IsSome(val_to_string(items[i].fields[j].v))
    THEN None
    ELSE Some([i \in 1..Len(items) |->
                 LET map == EntryMap(items[i].fields)
                 IN [event_id |-> IdString(items[i].id),
                     stream |-> sid,
                     values |-> [k \in DOMAIN map |->
                                   Unwrap(val_to_string(map[k]))]]])

\* the loop of query_stream: entries to Events; None when val_to_string panics
ToEvents(items, sid) ==
  IF \E i \in DOMAIN items : \E j \in DOMAIN items[i].fields :
        ~IsSome(val_to_string(items[i].fields[j].v))
    THEN None
    ELSE Some([i \in 1..Len(items) |->
                 LET map == EntryMap(items[i].fields)
                 IN [event_id |-> IdString(items[i].id),
                     stream |-> sid,
                     values |-> [k \in DOMAIN map |->
                                   Unwrap(val_to_string(map[k]))]]])

\* QueryStart, were the range's lower bound ignored
QueryStart_open(query) == "-"

\* the bounds of the range read: the query's range, or the whole stream
QueryStart(query) ==
  IF IsSome(query.range) THEN Unwrap(query.range).min_time ELSE "-"

QueryEnd(query) ==
  IF IsSome(query.range) THEN Unwrap(query.range).max_time ELSE "+"

\* QueryLimit, were the test count >= 0
QueryLimit_ge(query) == IF query.count >= 0 THEN Some(query.count) ELSE None

\* xrange_count with the query's count when it is positive, xrange otherwise
QueryLimit(query) == IF query.count > 0 THEN Some(query.count) ELSE None

\* query_stream, were it to discard the handle of a server it cannot reach
query_stream_evict(cl, st, actor, query, fault) ==
  LET con == actor_con(cl, actor, fault)
      start == QueryStart(query)
      end == QueryEnd(query)
      limit == QueryLimit(query)
      cmd == XRANGE(query.stream_id, start, end, limit)
      items == IF IsSome(limit)
                 THEN xrange_count(st, Unwrap(con.conn), query.stream_id,
                                   start, end, Unwrap(limit))
                 ELSE xrange(st, Unwrap(con.conn), query.stream_id, start, end)
      events == ToEvents(items, query.stream_id)
  IN IF ~con.ok
       THEN Outcome(con.err, {e \in cl : e.key # actor}, st, None, <<>>)
     ELSE IF fault = "command"
       THEN Outcome(CommandFailed, cl, st, con.conn, <<cmd>>)
     ELSE IF ~IsSome(events) THEN Outcome(Panic, cl, st, con.conn, <<cmd>>)
     ELSE Outcome(Ok(bytes("StreamResults", [events |-> Unwrap(events)])),
                  cl, st, con.conn, <<cmd>>)

query_stream(cl, st, actor, query, fault) ==
  LET sid == query.stream_id
      con == actor_con(cl, actor, fault)
      start == QueryStart(query)
      end == QueryEnd(query)
      limit == QueryLimit(query)
      cmd == XRANGE(query.stream_id, start, end, limit)
      items == IF IsSome(limit)
                 THEN xrange_count(st, Unwrap(con.conn), query.stream_id,
                                   start, end, Unwrap(limit))
                 ELSE xrange(st, Unwrap(con.conn), query.stream_id, start, end)
      events == ToEvents(items, sid)
  IN IF ~con.ok THEN Outcome(con.err, cl, st, None, <<>>)
     ELSE IF fault = "command"
       THEN Outcome(CommandFailed, cl, st, con.conn, <<cmd>>)
     ELSE IF ~IsSome(events) THEN Outcome(Panic, cl, st, con.conn, <<cmd>>)
     ELSE Outcome(Ok(bytes("StreamResults", [events |-> Unwrap(events)])),
                  cl, st, con.conn, <<cmd>>)

\* handle_call, were configure accepted from every actor
handle_call_any_actor(cl, st, actor, op, msg, env) ==
  CASE op = OP_CONFIGURE -> configure(cl, st, msg)
    [] op = OP_WRITE_EVENT ->
         LET event == decode("Event", msg)
         IN IF ~IsSome(event) THEN Outcome(Panic, cl, st, None, <<>>)
            ELSE write_event(cl, st, actor, Unwrap(event),
                             env.order, env.fault, env.ms)
    [] op = OP_QUERY_STREAM ->
         LET query == decode("StreamQuery", msg)
         IN IF ~IsSome(query) THEN Outcome(Panic, cl, st, None, <<>>)
            ELSE query_stream(cl, st, actor, Unwrap(query), env.fault)
    [] OTHER -> Outcome(BadDispatch, cl, st, None, <<>>)

\* handle_call, were it to decode the payload before it looks at the operation
handle_call_decode_first(cl, st, actor, op, msg, env) ==
  CASE msg = Garbage -> Outcome(Panic, cl, st, None, <<>>)
    [] op = OP_CONFIGURE /\ actor = "system" -> configure(cl, st, msg)
    [] op = OP_WRITE_EVENT ->
         write_event(cl, st, actor, Unwrap(decode("Event", msg)),
                     env.order, env.fault, env.ms)
    [] op = OP_QUERY_STREAM ->
         query_stream(cl, st, actor, Unwrap(decode("StreamQuery", msg)),
                      env.fault)
    [] OTHER -> Outcome(BadDispatch, cl, st, None, <<>>)

\* env: the choices a call does not control (HashMap iteration order, faults
\* between provider and server, the server's clock)
handle_call(cl, st, actor, op, msg, env) ==
  CASE op = OP_CONFIGURE /\ actor = "system" -> configure(cl, st, msg)
    [] op = OP_WRITE_EVENT ->
         LET event == decode("Event", msg)
         IN IF ~IsSome(event) THEN Outcome(Panic, cl, st, None, <<>>)
            ELSE write_event(cl, st, actor, Unwrap(event),
                             env.order, env.fault, env.ms)
    [] op = OP_QUERY_STREAM ->
         LET query == decode("StreamQuery", msg)
         IN IF ~IsSome(query) THEN Outcome(Panic, cl, st, None, <<>>)
            ELSE query_stream(cl, st, actor, Unwrap(query), env.fault)
    [] OTHER -> Outcome(BadDispatch, cl, st, None, <<>>)

-----------------------------------------------------------------------------
(* The RwLock around clients, and the threads of the host *)

Threads == {"t1", "t2", "t3"}
NoThread == "none"

\* the lock with no guard alive
Unlocked == [writer |-> NoThread, readers |-> {}]

\* read(), were it to return while a thread holds the write guard
RwLock_can_read_always(l) == l.writer \in Threads \cup {NoThread}

\* read() returns when no thread holds the write guard, write() when no
\* thread holds any guard
RwLock_can_read(l) == l.writer = NoThread
RwLock_can_write(l) == l.writer = NoThread /\ l.readers = {}

RwLock_read(l, t) == [l EXCEPT !.readers = @ \cup {t}]
RwLock_write(l, t) == [l EXCEPT !.writer = t]

\* the guard of thread t goes out of scope
RwLock_drop(l, t) ==
  [writer |-> IF l.writer = t THEN NoThread ELSE l.writer,
   readers |-> l.readers \ {t}]

\* the value of a map slot while insert is writing it
Torn == [url |-> "<partial>"]

\* a thread that is in no call
Idle ==
  [pc |-> "idle", op |-> "", actor |-> "", values |-> EmptyMap, c |-> None,
   seen |-> None, want |-> None, result |-> Ok(NoPayload)]

-----------------------------------------------------------------------------
(* State machine: the host makes one handle_call at a time and takes its     *)
(* result before it makes the next                                           *)

EmptyStore == [u \in ServerUrls |-> [s \in Streams |-> <<>>]]

NoCall ==
  [actor |-> "", op |-> "", msg |-> NoPayload, result |-> Ok(NoPayload),
   conn |-> None, cmds |-> <<>>]

Init ==
  /\ clients = HashMap_new
  /\ store = EmptyStore
  /\ last = NoCall
  /\ cfgLog = [c \in CallerIds |-> None]
  /\ wlog = EmptyStore
  /\ lock = Unlocked
  /\ thr = [t \in Threads |-> Idle]

RECURSIVE SumLen(_, _)
SumLen(st, keys) ==
  IF keys = {} THEN 0
  ELSE LET p == CHOOSE p \in keys : TRUE
       IN Len(st[p[1]][p[2]]) + SumLen(st, keys \ {p})

TotalEntries(st) == SumLen(st, ServerUrls \X Streams)

\* one call of handle_call and what it leaves behind
Call(actor, op, msg, env) ==
  /\ last = NoCall
  /\ \E out \in {handle_call(clients, store, actor, op, msg, env)} :
     LET config == decode("CapabilityConfiguration", msg)
         event == decode("Event", msg)
     IN
     /\ TotalEntries(out.store) <= MaxEntries
     /\ clients' = out.clients
     /\ store' = out.store
     /\ last' = [actor |-> actor, op |-> op, msg |-> msg,
                 result |-> out.result, conn |-> out.conn, cmds |-> out.cmds]
     /\ cfgLog' = IF op = OP_CONFIGURE /\ out.result.tag = "Ok"
                    THEN [cfgLog EXCEPT ![Unwrap(config).module] =
                                           Some(Unwrap(config).values)]
                    ELSE cfgLog
     /\ wlog' = IF op = OP_WRITE_EVENT /\ out.result.tag = "Ok"
                  THEN [wlog EXCEPT
                          ![Unwrap(out.conn)][Unwrap(event).stream] =
                             Append(@,
                               [event_id |->
                                  out.result.payload.body[1].event_id,
                                values |-> Unwrap(event).values])]
                  ELSE wlog
     /\ UNCHANGED <<lock, thr>>

NoClock == [u \in ServerUrls |-> 1]

NoEnv == [order |-> <<>>, fault |-> "none", ms |-> NoClock]

\* the servers' clocks: on each server a millisecond passes between any two
\* appends
Clock(st) == [u \in ServerUrls |-> SumLen(st, {u} \X Streams) + 1]

CallConfigure(actor, config) ==
  Call(actor, OP_CONFIGURE, bytes("CapabilityConfiguration", config), NoEnv)

CallWriteEvent(actor, event, order, fault) ==
  Call(actor, OP_WRITE_EVENT, bytes("Event", event),
       [order |-> order, fault |-> fault, ms |-> Clock(store)])

CallQueryStream(actor, query, fault) ==
  Call(actor, OP_QUERY_STREAM, bytes("StreamQuery", query),
       [order |-> <<>>, fault |-> fault, ms |-> NoClock])

\* a call whose payload decodes as no message
CallGarbled(actor, op) == Call(actor, op, Garbage, NoEnv)

\* the payloads of such a call: bytes of no message, and a configuration
OtherPayloads ==
  {Garbage,
   bytes("CapabilityConfiguration", [module |-> "a1", values |-> EmptyMap])}

\* a call of an operation the provider does not know
CallOther(actor, op, msg) == Call(actor, op, msg, NoEnv)

\* the host takes the result of the call
Return ==
  /\ last # NoCall
  /\ last' = NoCall
  /\ UNCHANGED <<clients, store, cfgLog, wlog, lock, thr>>

Next ==
  \/ \E actor \in CallerIds, config \in Configurations :
       CallConfigure(actor, config)
  \/ \E actor \in CallerIds, event \in Events, fault \in Faults :
       \E order \in Orders(DOMAIN event.values) :
         CallWriteEvent(actor, event, order, fault)
  \/ \E actor \in CallerIds, query \in Queries, fault \in Faults :
       CallQueryStream(actor, query, fault)
  \/ \E actor \in CallerIds,
        op \in {OP_CONFIGURE, OP_WRITE_EVENT, OP_QUERY_STREAM} :
       CallGarbled(actor, op)
  \/ \E actor \in CallerIds, op \in OtherOps, msg \in OtherPayloads :
       CallOther(actor, op, msg)
  \/ Return

Spec == Init /\ [][Next]_vars

-----------------------------------------------------------------------------
(* The servers are shared: other Redis clients append to the same streams *)

\* bytes that are no UTF-8 text
RawBytes == <<255, 254>>

\* another client appends an entry whose field holds arbitrary bytes
ExternalAppend(url, key) ==
  /\ last = NoCall
  /\ TotalEntries(store) < MaxEntries
  /\ store' = [store EXCEPT ![url][key] =
                 Append(@, [id |-> AutoId(@, Clock(store)[url]),
                            fields |-> <<[k |-> "blob",
                                          v |-> [tag |-> "Data",
                                                 data |-> RawBytes]]>>])]
  /\ UNCHANGED <<clients, last, cfgLog, wlog, lock, thr>>

NextExt ==
  \/ Next
  \/ \E url \in ServerUrls, key \in Streams : ExternalAppend(url, key)

SpecExt == Init /\ [][NextExt]_vars

-----------------------------------------------------------------------------
(* The host configures modules with values of other keys beside URL *)

ExtraConfigValues ==
  {[k \in {"TIMEOUT"} |-> SecondUrl],
   [k \in {"url"} |-> SecondUrl],
   [k \in {"url", "TIMEOUT"} |-> MalformedUrl],
   [k \in {ENV_REDIS_URL, "TIMEOUT"} |->
      IF k = ENV_REDIS_URL THEN DefaultUrl ELSE SecondUrl],
   [k \in {ENV_REDIS_URL, "url"} |->
      IF k = ENV_REDIS_URL THEN SecondUrl ELSE MalformedUrl],
   [k \in {ENV_REDIS_URL, "url"} |->
      IF k = ENV_REDIS_URL THEN MalformedUrl ELSE SecondUrl]}

NextConfig ==
  \/ \E actor \in CallerIds,
        config \in [module : CallerIds,
                    values : ConfigValues \cup ExtraConfigValues] :
       CallConfigure(actor, config)
  \/ Return

SpecConfig == Init /\ [][NextConfig]_vars

-----------------------------------------------------------------------------
(* Calls of several threads at once, one step of one thread at a time.     *)
(* A step is a statement that takes or drops a guard of the lock, reads or *)
(* writes clients, or talks to a server.                                   *)

\* the event the threads write and the stream they write and query
TheStream == "my-stream"
TheValues ==
  [k \in {"scruffy-looking", "test"} |->
     IF k = "test" THEN "ok" ELSE "nerf-herder"]
TheOrder == <<"scruffy-looking", "test">>

\* writes that have not reached the server yet
InFlight ==
  Cardinality({t \in Threads : thr[t].op = OP_WRITE_EVENT
                                 /\ thr[t].pc \notin {"idle", "done"}})

\* the handle the latest completed insert left for a caller id
Committed(c) ==
  IF IsSome(cfgLog[c])
    THEN Some([url |-> IF ENV_REDIS_URL \in DOMAIN Unwrap(cfgLog[c])
                         THEN Unwrap(cfgLog[c])[ENV_REDIS_URL]
                         ELSE DefaultUrl])
    ELSE None

\* the call of a thread has come to its result
Done(res) == [Idle EXCEPT !.pc = "done", !.result = res]

\* handle_call(system, OP_CONFIGURE, config) enters configure:
\* let c = initialize_client(config.clone())?
EnterConfigure(t, config) ==
  /\ thr[t].pc = "idle"
  /\ LET c == initialize_client(config)
     IN thr' = [thr EXCEPT ![t] =
                  IF IsSome(c)
                    THEN [Idle EXCEPT !.pc = "write", !.op = OP_CONFIGURE,
                                      !.actor = config.module,
                                      !.values = config.values, !.c = c]
                    ELSE Done(FailedToConnect)]
  /\ UNCHANGED <<clients, store, last, cfgLog, wlog, lock>>

\* self.clients.write().unwrap() returns the guard, and insert starts to
\* write the slot of the module
ClientsWrite(t) ==
  /\ thr[t].pc = "write"
  /\ RwLock_can_write(lock)
  /\ lock' = RwLock_write(lock, t)
  /\ clients' = HashMap_insert(clients, thr[t].actor, Torn)
  /\ thr' = [thr EXCEPT ![t].pc = "insert"]
  /\ UNCHANGED <<store, last, cfgLog, wlog>>

\* insert(config.module, c) is complete, the guard is dropped at the end of
\* the statement and configure returns Ok(vec![])
Insert(t) ==
  /\ thr[t].pc = "insert"
  /\ clients' = HashMap_insert(clients, thr[t].actor, Unwrap(thr[t].c))
  /\ cfgLog' = [cfgLog EXCEPT ![thr[t].actor] = Some(thr[t].values)]
  /\ lock' = RwLock_drop(lock, t)
  /\ thr' = [thr EXCEPT ![t] = Done(Ok(EmptyBytes))]
  /\ UNCHANGED <<store, last, wlog>>

\* handle_call(actor, OP_WRITE_EVENT, event) enters write_event and
\* actor_con
EnterWriteEvent(t, actor) ==
  /\ thr[t].pc = "idle"
  /\ TotalEntries(store) + InFlight < MaxEntries
  /\ thr' = [thr EXCEPT ![t] =
               [Idle EXCEPT !.pc = "read", !.op = OP_WRITE_EVENT,
                            !.actor = actor, !.values = TheValues]]
  /\ UNCHANGED <<clients, store, last, cfgLog, wlog, lock>>

\* handle_call(actor, OP_QUERY_STREAM, query) enters query_stream and
\* actor_con
EnterQueryStream(t, actor) ==
  /\ thr[t].pc = "idle"
  /\ thr' = [thr EXCEPT ![t] =
               [Idle EXCEPT !.pc = "read", !.op = OP_QUERY_STREAM,
                            !.actor = actor]]
  /\ UNCHANGED <<clients, store, last, cfgLog, wlog, lock>>

\* let lock = self.clients.read().unwrap() returns the guard, and
\* lock.get(actor) reads the slot of the actor: without a client actor_con
\* returns the error and drops the guard
ClientsRead(t) ==
  /\ thr[t].pc = "read"
  /\ RwLock_can_read(lock)
  /\ LET client == HashMap_get(clients, thr[t].actor)
         looked == [seen |-> client, want |-> Committed(thr[t].actor)]
     IN IF IsSome(client)
          THEN /\ thr' = [thr EXCEPT ![t] =
                            [@ EXCEPT !.pc = "get_connection", !.c = client,
                                      !.seen = looked.seen,
                                      !.want = looked.want]]
               /\ lock' = RwLock_read(lock, t)
          ELSE /\ thr' = [thr EXCEPT ![t] =
                            [Done(NoClientForActor) EXCEPT
                               !.seen = looked.seen, !.want = looked.want]]
               /\ lock' = RwLock_drop(RwLock_read(lock, t), t)
  /\ UNCHANGED <<clients, store, last, cfgLog, wlog>>

\* client.get_connection() opens the connection; actor_con returns it and
\* drops the guard
GetConnection(t, fault) ==
  /\ thr[t].pc = "get_connection"
  /\ lock' = RwLock_drop(lock, t)
  /\ thr' = [thr EXCEPT ![t] =
               IF fault = "connect" \/ Unwrap(thr[t].c).url \notin ServerUrls
                 THEN Done(ConnectionRefused)
                 ELSE [@ EXCEPT !.pc = "command", !.seen = None,
                                !.want = None]]
  /\ UNCHANGED <<clients, store, last, cfgLog, wlog>>

\* xadd or xrange on the connection, and the result of the call
Command(t, fault) ==
  /\ thr[t].pc = "command"
  /\ LET conn == Unwrap(thr[t].c).url
         data == map_to_tuples(thr[t].values, TheOrder)
         res == xadd(store, conn, TheStream, data, Clock(store))
         events == ToEvents(xrange(store, conn, TheStream, "-", "+"),
                            TheStream)
     IN IF fault = "command"
          THEN /\ thr' = [thr EXCEPT ![t] = Done(CommandFailed)]
               /\ store' = store
        ELSE IF thr[t].op = OP_WRITE_EVENT
          THEN /\ thr' = [thr EXCEPT ![t] =
                            Done(Ok(bytes("WriteResponse",
                                          [event_id |-> res.reply])))]
               /\ store' = res.store
        ELSE /\ thr' = [thr EXCEPT ![t] =
                          Done(Ok(bytes("StreamResults",
                                        [events |-> Unwrap(events)])))]
             /\ store' = store
  /\ UNCHANGED <<clients, last, cfgLog, wlog, lock>>

\* the host thread takes the result of its call
ThreadReturn(t) ==
  /\ thr[t].pc = "done"
  /\ thr' = [thr EXCEPT ![t] = Idle]
  /\ UNCHANGED <<clients, store, last, cfgLog, wlog, lock>>

\* the steps of a thread inside a call, but for taking the lock
Step(t) ==
  \/ Insert(t)
  \/ \E fault \in {"none", "connect"} : GetConnection(t, fault)
  \/ \E fault \in {"none", "command"} : Command(t, fault)

\* the calls the host makes with these configurations and for these actors
Calls(configs, actors) ==
  \E t \in Threads :
    \/ \E config \in configs : EnterConfigure(t, config)
    \/ \E actor \in actors : EnterWriteEvent(t, actor)
    \/ \E actor \in actors : EnterQueryStream(t, actor)
    \/ ClientsWrite(t)
    \/ ClientsRead(t)
    \/ Step(t)
    \/ ThreadReturn(t)

NextConc == Calls(Configurations, CallerIds)

SpecConc == Init /\ [][NextConc]_vars

\* Every server answers or fails a connection attempt and a command, and a
\* thread that can take a step inside its call takes it.  A thread blocked
\* in read() or write() returns if the lock is free for it again and again;
\* std::sync::RwLock promises no more (it has no priority policy), and
\* read() returns while other read guards are alive.
Fairness ==
  \A t \in Threads :
    /\ WF_vars(Step(t))
    /\ SF_vars(ClientsWrite(t))
    /\ SF_vars(ClientsRead(t))

\* the calls of one actor, "a1", and of the host that configures it with
\* the default address
NextLive ==
  Calls({c \in Configurations : c.module = "a1" /\ c.values = EmptyMap},
        {"a1"})

SpecLive == Init /\ [][NextLive]_vars /\ Fairness

-----------------------------------------------------------------------------
(* Vocabulary of the properties *)

\* the call whose result the host holds carried a payload of this type
Decoded(type) == last.msg.type = type

IsWrite == last.op = OP_WRITE_EVENT /\ Decoded("Event")
IsQuery == last.op = OP_QUERY_STREAM /\ Decoded("StreamQuery")
IsConfigure ==
  last.op = OP_CONFIGURE /\ last.actor = "system"
    /\ Decoded("CapabilityConfiguration")

TheEvent == last.msg.body[1]
TheQuery == last.msg.body[1]
TheConfig == last.msg.body[1]

\* a module that was configured successfully at some time
EverConfigured(c) == IsSome(cfgLog[c])

Handles(cl, c) == {e \in cl : e.key = c}

\* the error of the spec's taxonomy a result stands for
NotConfigured(res) == res = NoClientForActor
UnsupportedOperation(res) == res = BadDispatch
DecodeError(res) == res.tag = "Err" /\ res.err.kind = "DecodeError"

\* the address a configuration names
TargetOf(values) ==
  IF ENV_REDIS_URL \in DOMAIN values THEN values[ENV_REDIS_URL] ELSE DefaultUrl

-----------------------------------------------------------------------------
(* C1 *)

\* C1: a write_event or query_stream for a caller id that was never
\* configured successfully returns the NotConfigured error (it is neither a
\* success nor a panic), opens no connection, sends no command to any server
\* and leaves every stream as it was.
C1_UnconfiguredFails ==
  [][(last'.op \in {OP_WRITE_EVENT, OP_QUERY_STREAM}
        /\ last'.msg.type \in {"Event", "StreamQuery"}
        /\ last'.msg.type = (IF last'.op = OP_WRITE_EVENT THEN "Event"
                             ELSE "StreamQuery")
        /\ ~EverConfigured(last'.actor))
      => /\ NotConfigured(last'.result)
         /\ last'.conn = None
         /\ last'.cmds = <<>>
         /\ store' = store]_vars

C1_Witness ==
  /\ IsWrite
  /\ ~EverConfigured(last.actor)
  /\ \E c \in CallerIds : EverConfigured(c)
  /\ TheEvent.values # EmptyMap
  /\ NotConfigured(last.result)

-----------------------------------------------------------------------------
(* C2 *)

-----------------------------------------------------------------------------
(* C3 *)

\* C3: when the address of a configure call cannot be opened, the call
\* returns an error and the registry is exactly as before: a module that had
\* a handle keeps that handle, and connects through it as before; a module
\* that had none still has none.
C3_FailedRegisterKeepsRegistry ==
  [][(last'.op = OP_CONFIGURE /\ last'.actor = "system"
        /\ last'.msg.type = "CapabilityConfiguration"
        /\ TargetOf(last'.msg.body[1].values) \notin ServerUrls)
      => /\ last'.result.tag = "Err"
         /\ clients' = clients
         /\ \A c \in CallerIds :
              actor_con(clients', c, "none") = actor_con(clients, c, "none")]_vars

C3_Witness ==
  /\ IsConfigure
  /\ TargetOf(TheConfig.values) = MalformedUrl
  /\ last.result = FailedToConnect
  /\ Handles(clients, TheConfig.module) = {[key |-> TheConfig.module,
                                             value |-> [url |-> SecondUrl]]}

-----------------------------------------------------------------------------
(* C4 *)

\* C4: a configure, write_event or query_stream call whose payload cannot be
\* decoded returns a DecodeError to the host; it does not panic.
C4_DecodeFailureIsAnError ==
  (/\ last.msg = Garbage
   /\ \/ last.op \in {OP_WRITE_EVENT, OP_QUERY_STREAM}
      \/ last.op = OP_CONFIGURE /\ last.actor = "system")
    => DecodeError(last.result)

-----------------------------------------------------------------------------
(* C5 *)

\* C5: a caller id has at most one handle, and a write or query that opens a
\* connection opens it to the address of the latest successful configure for
\* its caller, whatever was configured for that caller before.
C5_OneHandleLatestTarget ==
  /\ \A c \in CallerIds : Cardinality(Handles(clients, c)) <= 1
  /\ \A c \in CallerIds :
       EverConfigured(c) =>
         Handles(clients, c) =
           {[key |-> c, value |-> [url |-> TargetOf(Unwrap(cfgLog[c]))]]}
  /\ (last.op \in {OP_WRITE_EVENT, OP_QUERY_STREAM} /\ IsSome(last.conn))
       => /\ EverConfigured(last.actor)
          /\ Unwrap(last.conn) = TargetOf(Unwrap(cfgLog[last.actor]))

\* "a1" wrote to the default server, was configured again, and now wrote to
\* the second server ("system" was never configured, so the entry on the
\* default server is a1's)
C5_Witness ==
  /\ ~EverConfigured("system")
  /\ \E s \in Streams : store[DefaultUrl][s] # <<>>
  /\ IsWrite
  /\ last.actor = "a1"
  /\ last.result.tag = "Ok"
  /\ last.conn = Some(SecondUrl)

-----------------------------------------------------------------------------
(* Vocabulary of the stream properties *)

IsOk == last.result.tag = "Ok"

\* the Events of the StreamResults a successful query returned
Results == last.result.payload.body[1].events

\* the stream a query read, as the server holds it and as it was written
Target == TargetOf(Unwrap(cfgLog[last.actor]))
Held == store[Target][TheQuery.stream_id]
Written == wlog[Target][TheQuery.stream_id]

Shown(ev) == [event_id |-> ev.event_id, values |-> ev.values]

InTimeRange(ms, range) ==
  \/ range = None
  \/ /\ range # None
     /\ ParseTime(Unwrap(range).min_time) <= ms
     /\ ms <= ParseTime(Unwrap(range).max_time)

\* the writes to the stream whose entries lie in the range, in append order
Matching(range) ==
  LET Hit(i) == InTimeRange(Held[i].id.ms, range)
      hits == SelectSeq([i \in 1..Len(Held) |-> i], Hit)
  IN [j \in 1..Len(hits) |-> Written[hits[j]]]

FullQuery == IsQuery /\ IsOk /\ TheQuery.range = None /\ TheQuery.count = 0

-----------------------------------------------------------------------------
(* C6 *)

\* C6: a full-range query with count 0 that succeeds returns, for every
\* successful write to that stream through the same address, an Event with
\* the written values (as a map), a non-empty event_id, and the event_id the
\* WriteResponse carried.
C6_WriteThenQuery ==
  FullQuery =>
    \A i \in DOMAIN Written :
      /\ Written[i].event_id # ""
      /\ \E j \in DOMAIN Results :
           /\ Results[j].event_id = Written[i].event_id
           /\ Results[j].values = Written[i].values

C6_Witness ==
  /\ FullQuery
  /\ Written # <<>>
  /\ \E j \in DOMAIN Results :
       /\ Results[j].event_id = Written[1].event_id
       /\ DOMAIN Results[j].values = {"scruffy-looking", "test"}
       /\ Results[j].values["scruffy-looking"] = "nerf-herder"

-----------------------------------------------------------------------------
(* C7 *)

\* C7: a full-range query with count 0 that succeeds returns exactly one
\* Event per successful write to the stream, in the order of the writes, each
\* naming the queried stream.
C7_AllEventsInWriteOrder ==
  FullQuery =>
    /\ Len(Results) = Len(Written)
    /\ \A j \in DOMAIN Results :
         /\ Shown(Results[j]) = Written[j]
         /\ Results[j].stream = TheQuery.stream_id

C7_Witness ==
  /\ FullQuery
  /\ Len(Written) = MaxEntries
  /\ Len(Results) = MaxEntries
  /\ Results[1].event_id # Results[MaxEntries].event_id
  /\ Results[1].values["scruffy-looking"] = "nerf-herder"

-----------------------------------------------------------------------------
(* C8 *)

\* C8: a successful query with count <= 0 returns every matching entry, and
\* one with count = N > 0 returns the first min(N, number of matching
\* entries) of them, in ascending order.
C8_CountLimits ==
  (IsQuery /\ IsOk) =>
    /\ Len(Written) = Len(Held)
    /\ LET all == Matching(TheQuery.range)
           n == IF TheQuery.count <= 0 \/ TheQuery.count > Len(all)
                  THEN Len(all) ELSE TheQuery.count
       IN /\ Len(Results) = n
          /\ \A j \in 1..n : Shown(Results[j]) = all[j]

C8_Witness ==
  /\ IsQuery /\ IsOk
  /\ TheQuery.count = 1
  /\ Len(Matching(TheQuery.range)) = 2
  /\ Len(Results) = 1

-----------------------------------------------------------------------------
(* C9 *)

\* C9: with a range, every Event a successful query returns is an entry of
\* the stream whose id lies in [min_time, max_time], and every such entry is
\* returned unless a positive count cut the result; without a range the
\* query reads from "-" to "+" and, unless cut, returns the whole stream.
C9_RangeBounds ==
  (IsQuery /\ IsOk) =>
    /\ \A j \in DOMAIN Results :
         \E i \in DOMAIN Held :
           /\ IdString(Held[i].id) = Results[j].event_id
           /\ InTimeRange(Held[i].id.ms, TheQuery.range)
    /\ (TheQuery.count <= 0 \/ Len(Results) < TheQuery.count) =>
         \A i \in DOMAIN Held :
           InTimeRange(Held[i].id.ms, TheQuery.range) =>
             \E j \in DOMAIN Results :
               Results[j].event_id = IdString(Held[i].id)
    /\ Len(last.cmds) = 1
    /\ last.cmds[1].name = "XRANGE"
    /\ last.cmds[1].key = TheQuery.stream_id
    /\ IF TheQuery.range = None
         THEN last.cmds[1].start = "-" /\ last.cmds[1].end = "+"
         ELSE /\ last.cmds[1].start = Unwrap(TheQuery.range).min_time
              /\ last.cmds[1].end = Unwrap(TheQuery.range).max_time

C9_Witness ==
  /\ IsQuery /\ IsOk
  /\ TheQuery.range = Some([min_time |-> "2", max_time |-> "2"])
  /\ TheQuery.count = 0
  /\ Len(Held) = 2
  /\ Len(Results) = 1
  /\ Results[1].event_id = "2-0"

-----------------------------------------------------------------------------
(* C10 *)

\* C10: a query by a configured caller that the server answers, on a stream
\* that holds no entry in the queried range (a stream never written
\* included), succeeds with an empty StreamResults.
C10_EmptyIsNotAnError ==
  (/\ IsQuery
   /\ EverConfigured(last.actor)
   /\ last.result \notin {ConnectionRefused, CommandFailed}
   /\ \A i \in DOMAIN Held : ~InTimeRange(Held[i].id.ms, TheQuery.range))
    => IsOk /\ Results = <<>>

C10_Witness ==
  /\ FullQuery
  /\ Held = <<>>
  /\ \E s \in Streams : store[Target][s] # <<>>
  /\ Results = <<>>

-----------------------------------------------------------------------------
(* C11 *)

\* the Value Codec of the design: the text of valid UTF-8, "??" otherwise
Decode(raw) == IF IsSome(from_utf8(raw)) THEN Unwrap(from_utf8(raw)) ELSE "??"

\* C11: a query that the server answers succeeds whatever bytes the stored
\* field values hold: every returned Event carries, for each field, the
\* decoded text of a valid UTF-8 value and "??" for any other value.
C11_InvalidUtf8Placeholder ==
  (/\ IsQuery
   /\ EverConfigured(last.actor)
   /\ last.result \notin {ConnectionRefused, CommandFailed})
    => /\ IsOk
       /\ \A j \in DOMAIN Results :
            \E i \in DOMAIN Held :
              /\ IdString(Held[i].id) = Results[j].event_id
              /\ \A f \in DOMAIN Held[i].fields :
                   /\ Held[i].fields[f].k \in DOMAIN Results[j].values
                   /\ Results[j].values[Held[i].fields[f].k] =
                        Decode(Held[i].fields[f].v.data)

-----------------------------------------------------------------------------
(* C12 *)

\* C12: a configure call from "system" that succeeds returns the empty
\* payload, leaves the module named in the payload with exactly the handle
\* of the configured address (not the caller "system"), and leaves the
\* registry entry of every other caller id as it was.
C12_ConfigureStoresUnderModule ==
  [][(/\ last'.op = OP_CONFIGURE
      /\ last'.actor = "system"
      /\ last'.msg.type = "CapabilityConfiguration"
      /\ last'.result.tag = "Ok")
      => LET config == last'.msg.body[1]
         IN /\ last'.result = Ok(EmptyBytes)
            /\ Handles(clients', config.module) =
                 {[key |-> config.module,
                   value |-> [url |-> TargetOf(config.values)]]}
            /\ \A c \in CallerIds \ {config.module} :
                 Handles(clients', c) = Handles(clients, c)
            /\ {e.key : e \in clients'} \subseteq
                 {e.key : e \in clients} \cup {config.module}]_vars

C12_Witness ==
  /\ IsConfigure
  /\ last.result = Ok(EmptyBytes)
  /\ TheConfig.module = "a1"
  /\ Handles(clients, "system") =
       {[key |-> "system", value |-> [url |-> SecondUrl]]}
  /\ Handles(clients, "a1") = {[key |-> "a1", value |-> [url |-> DefaultUrl]]}

-----------------------------------------------------------------------------
(* C13 *)

KnownOps == {OP_CONFIGURE, OP_WRITE_EVENT, OP_QUERY_STREAM}

\* C13: a call of an operation other than configure, write_event and
\* query_stream fails with UnsupportedOperation for every caller and every
\* payload, bytes of no message included (the payload is not decoded); it
\* opens no connection, sends no command and changes neither the registry
\* nor any stream.
C13_UnknownOperationRejected ==
  [][(last' # NoCall /\ last'.op \notin KnownOps)
      => /\ UnsupportedOperation(last'.result)
         /\ last'.conn = None
         /\ last'.cmds = <<>>
         /\ clients' = clients
         /\ store' = store]_vars

C13_Witness ==
  /\ last # NoCall
  /\ last.op \notin KnownOps
  /\ last.msg = Garbage
  /\ UnsupportedOperation(last.result)
  /\ clients # {}
  /\ store # EmptyStore

-----------------------------------------------------------------------------
(* C14 *)

\* the values of a configuration without every key but URL
OnlyUrl(values) ==
  [k \in DOMAIN values \cap {ENV_REDIS_URL} |-> values[k]]

\* C14: a configure call from "system" succeeds exactly when the value of
\* the configuration key URL, or redis://0.0.0.0:6379/ when the key is
\* absent, is an address a client can be made for, and the handle it stores
\* is the one of that address; the values of all other keys are without
\* effect on the client.
C14_TargetFromUrlKey ==
  IsConfigure =>
    /\ IsOk <=> TargetOf(TheConfig.values) \in ServerUrls
    /\ IsOk => Handles(clients, TheConfig.module) =
                 {[key |-> TheConfig.module,
                   value |-> [url |-> TargetOf(TheConfig.values)]]}
    /\ initialize_client(TheConfig) =
         initialize_client([TheConfig EXCEPT !.values = OnlyUrl(@)])

\* a configuration with another key only took the default address, after
\* one whose URL key named the second server
C14_Witness ==
  /\ IsConfigure
  /\ IsOk
  /\ TheConfig.module = "a1"
  /\ DOMAIN TheConfig.values = {"url"}
  /\ Handles(clients, "a1") = {[key |-> "a1", value |-> [url |-> DefaultUrl]]}
  /\ Handles(clients, "system") =
       {[key |-> "system", value |-> [url |-> SecondUrl]]}

-----------------------------------------------------------------------------
(* C15 *)

Configured(cl, c) == Handles(cl, c) # {}

\* C15: no step takes a Configured caller id back to Unconfigured, and the
\* only step that takes a caller id from Unconfigured to Configured is a
\* configure call from "system" that succeeds and names that id as module.
C15_ConfiguredIsPermanent ==
  [][\A c \in CallerIds :
       /\ Configured(clients, c) => Configured(clients', c)
       /\ (~Configured(clients, c) /\ Configured(clients', c))
            => /\ last'.op = OP_CONFIGURE
               /\ last'.actor = "system"
               /\ last'.result.tag = "Ok"
               /\ last'.msg.type = "CapabilityConfiguration"
               /\ last'.msg.body[1].module = c]_vars

\* a Configured caller, after a query that could not reach its server
C15_Witness ==
  /\ IsQuery
  /\ last.result = ConnectionRefused
  /\ Configured(clients, last.actor)
  /\ \E c \in CallerIds : ~Configured(clients, c)

-----------------------------------------------------------------------------
(* C18 *)

\* C18: a write_event or query_stream call, whatever its payload and
\* whether it succeeds, fails or panics, leaves the registry as it was for
\* every caller id; a stream of a server changes only in a write_event call
\* that succeeds.
C18_DataCallsKeepRegistry ==
  [][(last' # NoCall /\ last'.op \in {OP_WRITE_EVENT, OP_QUERY_STREAM})
      => /\ clients' = clients
         /\ \A c \in CallerIds : Handles(clients', c) = Handles(clients, c)
         /\ store' # store
              => last'.op = OP_WRITE_EVENT /\ last'.result.tag = "Ok"]_vars

\* a write that the server refused, by a configured caller, with entries
\* held
C18_Witness ==
  /\ IsWrite
  /\ last.result = CommandFailed
  /\ TheEvent.values # EmptyMap
  /\ Configured(clients, "system") /\ Configured(clients, "a1")
  /\ store # EmptyStore

-----------------------------------------------------------------------------
(* C19 *)

\* C19: a write_event call sends at most one append command.  When it
\* succeeds, the command is one XADD to the stream the Event names, that
\* stream on the caller's server holds exactly one entry more and every
\* other stream is as it was.  When the connection or the append fails, the
\* call returns that store error, no stream changed and no second command
\* was sent.
C19_SingleAppend ==
  [][(last'.op = OP_WRITE_EVENT /\ last'.msg.type = "Event")
      => LET ev == last'.msg.body[1]
         IN /\ Len(last'.cmds) <= 1
            /\ \A i \in DOMAIN last'.cmds :
                 last'.cmds[i].name = "XADD" /\ last'.cmds[i].key = ev.stream
            /\ last'.result.tag = "Ok" =>
                 /\ Len(last'.cmds) = 1
                 /\ \E u \in ServerUrls :
                      /\ last'.conn = Some(u)
                      /\ Len(store'[u][ev.stream]) =
                           Len(store[u][ev.stream]) + 1
                      /\ \A i \in DOMAIN store[u][ev.stream] :
                           store'[u][ev.stream][i] = store[u][ev.stream][i]
                      /\ \A v \in ServerUrls, s \in Streams :
                           <<v, s>> # <<u, ev.stream>>
                             => store'[v][s] = store[v][s]
            /\ last'.result.tag # "Ok" =>
                 /\ store' = store
                 /\ last'.result \in
                      {NoClientForActor, ConnectionRefused, CommandFailed}
            /\ last'.result = ConnectionRefused => last'.cmds = <<>>
            /\ last'.result = CommandFailed => Len(last'.cmds) = 1]_vars

\* a write that succeeded on a stream that held one entry
C19_Witness ==
  /\ IsWrite
  /\ IsOk
  /\ Len(last.cmds) = 1
  /\ Len(store[Unwrap(last.conn)][TheEvent.stream]) = 2

-----------------------------------------------------------------------------
(* C16 *)

\* the threads whose call has looked its caller id up in the registry
Looked ==
  {t \in Threads : \/ thr[t].pc = "get_connection"
                   \/ thr[t].pc = "done" /\ NotConfigured(thr[t].result)}

\* C16: under every interleaving of configure calls with write_event and
\* query_stream calls, what a lookup finds for its caller id is a whole
\* handle or nothing, never a slot that an insert is writing, and it is
\* what the latest insert for that caller id that was complete at the time
\* of the lookup left: the handle before or after a concurrent Register,
\* nothing only when no Register for the caller id had completed, and the
\* new handle once the Register has returned.
C16_LookupSeesWholeHandle ==
  \A t \in Looked :
    /\ thr[t].seen \in {None} \cup {Some([url |-> u]) : u \in ServerUrls}
    /\ thr[t].seen = thr[t].want

\* a lookup found the old handle while a Register of a new one for the same
\* caller id waits for the lock
C16_Witness ==
  \E t \in Looked, u \in Threads :
    /\ thr[t].pc = "get_connection"
    /\ thr[t].seen = Some([url |-> DefaultUrl])
    /\ thr[u].pc = "write"
    /\ thr[u].actor = thr[t].actor
    /\ thr[u].c = Some([url |-> SecondUrl])

-----------------------------------------------------------------------------
(* C17 *)

\* the threads that hold a guard of the lock
Holders == lock.readers \cup ({lock.writer} \cap Threads)

\* C17: a Register that is about to store its handle can do so whenever
\* every call that holds the registry works for another caller id, and a
\* Lookup can read the registry whenever only Lookups hold it.
C17_NoWaitAcrossCallers ==
  \A t \in Threads :
    /\ (/\ thr[t].pc = "write"
        /\ \A u \in Holders : thr[u].actor # thr[t].actor)
         => RwLock_can_write(lock)
    /\ (thr[t].pc = "read" /\ lock.writer = NoThread)
         => RwLock_can_read(lock)

-----------------------------------------------------------------------------
(* C20 *)

\* C20: with servers that answer or fail every connection attempt and every
\* command, every configure, write_event and query_stream call that was
\* entered comes to its result, whatever the other threads do: no call
\* stays blocked in read() or write() of the registry lock.
C20_EveryCallReturns ==
  \A t \in Threads : (thr[t].pc # "idle") ~> (thr[t].pc = "done")

====
